---- MODULE Spec2Model ----
(***************************************************************************)
(* Model of the Task data-access layer of DatabaseCRUD (class Task of the  *)
(* models/Task module) over the TASK table of IA_DB.                       *)
(*                                                                         *)
(* The state is the TASK table as MySQL holds it, the AUTO_INCREMENT       *)
(* counter, the server clock that CURRENT_TIMESTAMP reads (DATETIME, one   *)
(* second resolution), and, for the last call of the model class: the      *)
(* call, the value it returned (or the error it threw) and the statements  *)
(* it sent through pool.execute.                                           *)
(*                                                                         *)
(* The specifications share the operations and differ in the calls they    *)
(* make: Spec makes every call but getAll with the full range of task      *)
(* data, SpecList makes every call, getAll included, over tables whose     *)
(* rows differ in completed and in their timestamps, SpecChain follows     *)
(* pairs of consecutive calls on one task, SpecFault lets the statements   *)
(* of the calls be rejected by the storage, SpecEdit edits titles and      *)
(* descriptions, SpecInput passes values that are not booleans and makes   *)
(* POST /api/tasks requests, SpecPages pages through getAll, SpecRace runs *)
(* several calls and GET /api/tasks/stats at once, one statement at a      *)
(* time (procs holds the calls in progress), and SpecPool runs             *)
(* testConnection (pool is the number of connections taken from the        *)
(* mysql2 pool and not yet released).                                      *)
(***************************************************************************)
EXTENDS Integers, Sequences, FiniteSets, TLC

VARIABLES table, nextId, now, call, ret, log, chain, procs, pool

vars == <<table, nextId, now, call, ret, log, chain, procs, pool>>

----------------------------------------------------------------------------
(* Bounds of the model *)

MaxTasks == 2   \* rows ever inserted (ids 1..MaxTasks)
MaxTime  == 1   \* seconds the clock may advance
NumProcs == 2   \* calls in progress at once

(* Program constant: the largest LIMIT Task.getAll lets through *)
MaxLimit == 100

(* connectionLimit of dbConfig *)
ConnectionLimit == 10

----------------------------------------------------------------------------
(* JavaScript values, tagged with their typeof *)

Undef   == [t |-> "undefined"]
Null    == [t |-> "null"]
Str(s)  == [t |-> "string", v |-> s]
Bool(b) == [t |-> "boolean", v |-> b]
Num(n)  == [t |-> "number", v |-> n]

IsUndef(x) == x.t = "undefined"
IsStr(x)   == x.t = "string"
IsNum(x)   == x.t = "number"

(* JavaScript ToBoolean: the test of `x || y`, `x && y` and `x ? a : b` *)
Truthy(x) ==
    CASE x.t = "undefined" -> FALSE
      [] x.t = "null"      -> FALSE
      [] x.t = "string"    -> x.v # <<>>
      [] x.t = "boolean"   -> x.v
      [] x.t = "number"    -> x.v # 0

(* x === true *)
IsTrue(x) == x.t = "boolean" /\ x.v

(* String.prototype.trim on a string held as a sequence of characters *)
RECURSIVE TrimLeft(_)
TrimLeft(s) == IF s # <<>> /\ Head(s) = " " THEN TrimLeft(Tail(s)) ELSE s

RECURSIVE TrimRight(_)
TrimRight(s) ==
    IF s # <<>> /\ s[Len(s)] = " " THEN TrimRight(SubSeq(s, 1, Len(s) - 1)) ELSE s

Trim(s) == TrimRight(TrimLeft(s))

----------------------------------------------------------------------------
(* Inputs the operations are called with *)

Ids == 1 .. MaxTasks

CreateTitles == { Str(<<"a">>), Str(<<" ", "a", " ">>) }
UpdateTitles == { Undef, Str(<<" ", "a", " ">>) }
CreateDescriptions == { Undef, Str(<<"d">>) }
UpdateDescriptions == { Undef, Null, Str(<<"d">>) }
CompletedInputs == { Undef, Bool(TRUE), Bool(FALSE) }
LimitInputs  == { Undef, Num(-1), Num(0), Num(1), Num(2), Num(MaxLimit + 1) }
OffsetInputs == { Undef, Num(-1), Num(0), Num(1) }

(* update data for the edits of title and description: a padded title,   *)
(* a title with an inner space, a description of null, of the empty      *)
(* string and of padded text                                             *)
EditTitles == { Undef, Str(<<" ", "a", " ">>), Str(<<"a", " ", "b">>) }
EditDescriptions == { Undef, Null, Str(<<>>), Str(<<" ", "e">>) }

NoData    == [title |-> Undef, description |-> Undef, completed |-> Undef]
NoFilters == [completed |-> Undef, limit |-> Undef, offset |-> Undef]

CreateData == [title : CreateTitles, description : CreateDescriptions,
               completed : CompletedInputs]
UpdateData == [title : UpdateTitles, description : UpdateDescriptions,
               completed : CompletedInputs]
ListFilters  == [completed : CompletedInputs, limit : LimitInputs,
                 offset : OffsetInputs]
CountFilters == [completed : CompletedInputs, limit : {Undef}, offset : {Undef}]

(* The task data of SpecList and SpecChain: one title, no description *)
PlainCreateData == [title : {Str(<<"a">>)}, description : {Undef},
                    completed : CompletedInputs]
CompletedUpdateData == [title : {Undef}, description : {Undef},
                        completed : CompletedInputs]

(* The data of SpecInput: for completed also values that are not         *)
(* booleans, the string 'true', the number 1 and a string that names no   *)
(* boolean                                                                *)
LooseCompleted == { Undef, Bool(TRUE), Bool(FALSE), Str(<<"t", "r", "u", "e">>), Num(1) }
LooseCreateData == [title : {Str(<<"a">>)}, description : {Undef},
                    completed : LooseCompleted]
LooseUpdateData == [title : {Undef}, description : {Undef},
                    completed : LooseCompleted \ {Undef}]
LooseFilters == [completed : LooseCompleted, limit : {Undef}, offset : {Undef}]
PostBodies == [title : {Undef, Str(<<" ", "a">>)}, description : {Undef, Str(<<"d">>)},
               completed : LooseCompleted \cup {Str(<<"x">>)}]

(* The update data of SpecRace: completed alone, or the title alone *)
RaceUpdateData == CompletedUpdateData \cup {[NoData EXCEPT !.title = Str(<<"b">>)]}

(* The task data of SpecEdit: tasks created with a description, edited in  *)
(* title and description                                                   *)
DescribedCreateData == [title : {Str(<<"a">>)}, description : {Str(<<"d">>)},
                        completed : {Undef}]
EditData == [title : EditTitles, description : EditDescriptions,
             completed : {Undef, Bool(TRUE)}]

----------------------------------------------------------------------------
(* Values a call returns *)

RetNone      == [kind |-> "none"]
RetNull      == [kind |-> "null"]
RetTask(t)   == [kind |-> "task", val |-> t]
RetList(l)   == [kind |-> "list", val |-> l]
RetBool(b)   == [kind |-> "boolean", val |-> b]
RetCount(n)  == [kind |-> "count", val |-> n]
RetThrow(e)  == [kind |-> "throw", val |-> e]

(* The pages a caller collected with successive getAll calls *)
RetPages(pages) == [kind |-> "pages", val |-> pages]

(* data of the answer of GET /api/tasks/stats; -1 for a count not yet made *)
RetStats(total, completed, pending) ==
    [kind |-> "stats", total |-> total, completed |-> completed, pending |-> pending]

(* res.status(status).json({message, data}) of a route *)
Response(status, message, data) ==
    [kind |-> "response", status |-> status, message |-> message, val |-> data]

(* The history variable chain is kept only in the behaviours of SpecChain  *)
NoChain  == [on |-> TRUE, stage |-> 0, id |-> 0, before |-> 0]

ChainOff == [on |-> FALSE, stage |-> 0, id |-> 0, before |-> 0]

----------------------------------------------------------------------------
(* The TASK table: id -> row.  completed is the TINYINT(1) MySQL stores,   *)
(* description is NULL or a string, the two timestamps are whole seconds.  *)

EmptyTable == [i \in {} |-> 0]

(* NewRow for an updated_at column declared without its DEFAULT: the     *)
(* column holds the zero value until the first UPDATE                     *)
NewRowNoUpdatedDefault(title, description, completed, t) ==
    [title |-> title, description |-> description, completed |-> completed,
     created_at |-> t, updated_at |-> 0]

(* created_at / updated_at DATETIME DEFAULT CURRENT_TIMESTAMP *)
NewRow(title, description, completed, t) ==
    [title |-> title, description |-> description, completed |-> completed,
     created_at |-> t, updated_at |-> t]

(* INSERT INTO TASK (title, description, completed) VALUES (?, ?, ?) *)
InsertRow(tbl, id, row) ==
    [i \in DOMAIN tbl \cup {id} |-> IF i = id THEN row ELSE tbl[i]]

(* DELETE FROM TASK WHERE id = ? *)
DeleteRow(tbl, id) == [i \in DOMAIN tbl \ {id} |-> tbl[i]]

(* A row as SELECT * hands it to the driver *)
RawRow(tbl, id) ==
    [id |-> id, title |-> tbl[id].title, description |-> tbl[id].description,
     completed |-> tbl[id].completed, created_at |-> tbl[id].created_at,
     updated_at |-> tbl[id].updated_at]

(* SELECT * FROM TASK WHERE id = ? *)
SelectById(tbl, id) == IF id \in DOMAIN tbl THEN <<RawRow(tbl, id)>> ELSE <<>>

(* convertBooleanFields that hands the row on as the driver returned it *)
convertBooleanFieldsRaw(task) == task

(* Boolean(task.completed) on the TINYINT the driver returns *)
convertBooleanFields(task) == [task EXCEPT !.completed = (task.completed # 0)]

convertTaskArray(tasks) == [i \in 1 .. Len(tasks) |-> convertBooleanFields(tasks[i])]

(* getById that throws for an id without a row *)
getByIdThrowsWhenAbsent(tbl, id) ==
    LET rows == SelectById(tbl, id)
    IN  IF Len(rows) > 0 THEN RetTask(convertBooleanFields(rows[1]))
        ELSE RetThrow("Task not found")

(* Task.getById: the converted row, or null when no row has the id *)
getById(tbl, id) ==
    LET rows == SelectById(tbl, id)
    IN  IF Len(rows) > 0 THEN RetTask(convertBooleanFields(rows[1])) ELSE RetNull

----------------------------------------------------------------------------
(* Task.getAll: the query it builds, and what MySQL answers *)

(* filters.completed === true ? 1 : 0 *)
CompletedParam(c) == IF IsTrue(c) THEN 1 ELSE 0

(* WhereOf with the presence test written as a truthiness test,          *)
(* if (filters.completed): a filter of false is dropped                   *)
WhereOfTruthy(filters) ==
    IF Truthy(filters.completed) THEN <<CompletedParam(filters.completed)>> ELSE <<>>

(* WHERE completed = ?, when filters.completed is not undefined *)
WhereOf(filters) ==
    IF ~IsUndef(filters.completed) THEN <<CompletedParam(filters.completed)>> ELSE <<>>

(* LIMIT n, when filters.limit is truthy, > 0 and parseInt of it is in 1..100 *)
LimitOf(filters) ==
    IF Truthy(filters.limit) /\ IsNum(filters.limit) /\ filters.limit.v > 0
          /\ filters.limit.v <= MaxLimit
    THEN <<filters.limit.v>> ELSE <<>>

(* OFFSET n, when filters.offset is truthy and >= 0 *)
OffsetOf(filters) ==
    IF Truthy(filters.offset) /\ IsNum(filters.offset) /\ filters.offset.v >= 0
    THEN <<filters.offset.v>> ELSE <<>>

GetAllQuery(filters) ==
    [where |-> WhereOf(filters), limit |-> LimitOf(filters), offset |-> OffsetOf(filters)]

(* The ids of the rows a WHERE clause selects *)
Matching(tbl, where) ==
    { i \in DOMAIN tbl : where = <<>> \/ tbl[i].completed = where[1] }

(* Orderings with ORDER BY created_at ASC *)
OrderingsAscending(tbl, S) ==
    { s \in [1 .. Cardinality(S) -> S] :
        /\ \A i, j \in DOMAIN s : i # j => s[i] # s[j]
        /\ \A i, j \in DOMAIN s : i < j => tbl[s[i]].created_at <= tbl[s[j]].created_at }

(* ORDER BY created_at DESC: every order of the selected rows in which     *)
(* created_at does not increase; rows of the same second come in any order *)
Orderings(tbl, S) ==
    { s \in [1 .. Cardinality(S) -> S] :
        /\ \A i, j \in DOMAIN s : i # j => s[i] # s[j]
        /\ \A i, j \in DOMAIN s : i < j => tbl[s[i]].created_at >= tbl[s[j]].created_at }

Min(a, b) == IF a < b THEN a ELSE b

(* LIMIT / OFFSET applied to the ordered ids *)
Page(s, limit, offset) ==
    LET skipped == IF offset = <<>> THEN s ELSE SubSeq(s, offset[1] + 1, Len(s))
    IN  IF limit = <<>> THEN skipped ELSE SubSeq(skipped, 1, Min(limit[1], Len(skipped)))

(* MySQL accepts OFFSET only after LIMIT: "... ORDER BY created_at DESC    *)
(* OFFSET n" is rejected with ER_PARSE_ERROR                               *)
QueryParses(q) == q.offset = <<>> \/ q.limit # <<>>

(* pool.execute(query, params) of getAll: the results MySQL may produce *)
ExecuteGetAll(tbl, q) ==
    IF ~QueryParses(q)
    THEN { RetThrow("ER_PARSE_ERROR") }
    ELSE { RetList(convertTaskArray([k \in 1 .. Len(Page(s, q.limit, q.offset)) |->
                        RawRow(tbl, Page(s, q.limit, q.offset)[k])])) :
             s \in Orderings(tbl, Matching(tbl, q.where)) }

(* getAll that returns null instead of an empty array *)
getAllNullWhenEmpty(tbl, filters) ==
    { IF r = RetList(<<>>) THEN RetNull ELSE r : r \in ExecuteGetAll(tbl, GetAllQuery(filters)) }

(* Task.getAll(filters): the values the call may return *)
getAll(tbl, filters) == ExecuteGetAll(tbl, GetAllQuery(filters))

(* Paging through getAll with page size L: page k (from 0) is            *)
(* getAll({completed, limit: L}) for k = 0 and                            *)
(* getAll({completed, limit: L, offset: k * L}) after it; with L >= 1     *)
(* MaxTasks pages reach past the last row                                 *)
PageSizes == {1, 2}

MaxPages == MaxTasks

PageFilters(completed, L, k) ==
    [completed |-> completed, limit |-> Num(L),
     offset |-> IF k = 0 THEN Undef ELSE Num(k * L)]

(* The page sequences the calls may return: every call is a query of its  *)
(* own, so each page comes from an ordering of its own                    *)
RECURSIVE getAllPagesFrom(_, _, _, _)
getAllPagesFrom(tbl, completed, L, k) ==
    IF k >= MaxPages
    THEN { <<>> }
    ELSE { <<r.val>> \o rest : r \in getAll(tbl, PageFilters(completed, L, k)),
                                rest \in getAllPagesFrom(tbl, completed, L, k + 1) }

getAllPages(tbl, completed, L) == getAllPagesFrom(tbl, completed, L, 0)

(* getCount that never appends its WHERE clause *)
getCountNoWhere(tbl, filters) == Cardinality(DOMAIN tbl)

(* Task.getCount(filters): SELECT COUNT of the rows [WHERE completed = ?] *)
getCount(tbl, filters) == Cardinality(Matching(tbl, WhereOf(filters)))

----------------------------------------------------------------------------
(* Task.create *)

(* const { ..., completed = false } = taskData *)
DefaultCompleted(completed) == IF IsUndef(completed) THEN Bool(FALSE) ELSE completed

(* title || '' *)
SafeTitle(title) == IF Truthy(title) THEN title ELSE Str(<<>>)

(* description || null *)
SafeDescription(description) == IF Truthy(description) THEN description ELSE Null

(* SafeCompleted written as completed ? 1 : 0 *)
SafeCompletedTruthy(completed) == IF Truthy(completed) THEN 1 ELSE 0

(* completed === true ? 1 : 0 *)
SafeCompleted(completed) == IF IsTrue(completed) THEN 1 ELSE 0

(* The row INSERT stores for taskData at second t *)
CreateRow(data, t) ==
    NewRow(SafeTitle(data.title).v, SafeDescription(data.description),
           SafeCompleted(DefaultCompleted(data.completed)), t)

(* Task.create(taskData) with insertId nid: INSERT, then getById(insertId) *)
create(tbl, nid, t, data) ==
    LET tbl2 == InsertRow(tbl, nid, CreateRow(data, t))
    IN  [table |-> tbl2, ret |-> getById(tbl2, nid), log |-> <<"INSERT", "SELECT">>]

----------------------------------------------------------------------------
(* Task.update *)

UpdatableColumns == {"title", "description", "completed"}

(* UpdateSets that lists every column, with the value create would store *)
(* for a field taskData does not hold                                     *)
UpdateSetsEveryColumn(data) ==
    [c \in UpdatableColumns |->
        CASE c = "title"       -> IF IsUndef(data.title) THEN <<>> ELSE Trim(data.title.v)
          [] c = "description" -> IF Truthy(data.description)
                                  THEN Str(Trim(data.description.v)) ELSE Null
          [] c = "completed"   -> IF IsTrue(data.completed) THEN 1 ELSE 0]

(* UpdateSets that trims a description whenever it is a string, the empty *)
(* one included, and stores null only for null                            *)
UpdateSetsKeepEmpty(data) ==
    [c \in { c \in UpdatableColumns : ~IsUndef(data[c]) } |->
        CASE c = "title"       -> Trim(data.title.v)
          [] c = "description" -> IF IsStr(data.description)
                                  THEN Str(Trim(data.description.v)) ELSE Null
          [] c = "completed"   -> IF IsTrue(data.completed) THEN 1 ELSE 0]

(* The SET list: a column is listed when its field of taskData is not      *)
(* undefined; title.trim(), description ? description.trim() : null,       *)
(* completed === true ? 1 : 0                                              *)
UpdateSets(data) ==
    [c \in { c \in UpdatableColumns : ~IsUndef(data[c]) } |->
        CASE c = "title"       -> Trim(data.title.v)
          [] c = "description" -> IF Truthy(data.description)
                                  THEN Str(Trim(data.description.v)) ELSE Null
          [] c = "completed"   -> IF IsTrue(data.completed) THEN 1 ELSE 0]

(* SetColumns that writes every updatable column, NULL or 0 for the ones  *)
(* taskData does not hold (a full replacement instead of a partial one)   *)
SetColumnsReplaceAll(row, sets, t) ==
    [title       |-> IF "title" \in DOMAIN sets THEN sets["title"] ELSE row.title,
     description |-> IF "description" \in DOMAIN sets THEN sets["description"]
                     ELSE Null,
     completed   |-> IF "completed" \in DOMAIN sets THEN sets["completed"]
                     ELSE 0,
     created_at  |-> row.created_at,
     updated_at  |-> t]

(* SetColumns for a created_at column declared ON UPDATE CURRENT_TIMESTAMP *)
SetColumnsTouchCreatedAt(row, sets, t) ==
    [title       |-> IF "title" \in DOMAIN sets THEN sets["title"] ELSE row.title,
     description |-> IF "description" \in DOMAIN sets THEN sets["description"]
                     ELSE row.description,
     completed   |-> IF "completed" \in DOMAIN sets THEN sets["completed"]
                     ELSE row.completed,
     created_at  |-> t,
     updated_at  |-> t]

(* SetColumns without updated_at = CURRENT_TIMESTAMP (and without the     *)
(* column's ON UPDATE clause)                                             *)
SetColumnsKeepUpdatedAt(row, sets, t) ==
    [title       |-> IF "title" \in DOMAIN sets THEN sets["title"] ELSE row.title,
     description |-> IF "description" \in DOMAIN sets THEN sets["description"]
                     ELSE row.description,
     completed   |-> IF "completed" \in DOMAIN sets THEN sets["completed"]
                     ELSE row.completed,
     created_at  |-> row.created_at,
     updated_at  |-> row.updated_at]

(* The row after SET <sets>, updated_at = CURRENT_TIMESTAMP at second t *)
SetColumns(row, sets, t) ==
    [title       |-> IF "title" \in DOMAIN sets THEN sets["title"] ELSE row.title,
     description |-> IF "description" \in DOMAIN sets THEN sets["description"]
                     ELSE row.description,
     completed   |-> IF "completed" \in DOMAIN sets THEN sets["completed"]
                     ELSE row.completed,
     created_at  |-> row.created_at,
     updated_at  |-> t]

(* UPDATE TASK SET ... WHERE id = ? *)
UpdateRow(tbl, id, sets, t) ==
    IF id \in DOMAIN tbl THEN [tbl EXCEPT ![id] = SetColumns(tbl[id], sets, t)] ELSE tbl

(* update without the early return for an empty SET list: it always runs  *)
(* UPDATE TASK SET updated_at = CURRENT_TIMESTAMP WHERE id = ?            *)
updateAlwaysWrites(tbl, t, id, data) ==
    LET existingTask == getById(tbl, id)
        tbl2 == UpdateRow(tbl, id, UpdateSets(data), t)
    IN  IF existingTask = RetNull
        THEN [table |-> tbl, ret |-> RetNull, log |-> <<"SELECT">>]
        ELSE [table |-> tbl2, ret |-> getById(tbl2, id),
              log |-> <<"SELECT", "UPDATE", "SELECT">>]

(* update without the existence check *)
updateNoExistenceCheck(tbl, t, id, data) ==
    LET sets == UpdateSets(data)
        tbl2 == UpdateRow(tbl, id, sets, t)
    IN  IF DOMAIN sets = {}
        THEN [table |-> tbl, ret |-> getById(tbl, id), log |-> <<"SELECT">>]
        ELSE [table |-> tbl2, ret |-> getById(tbl2, id),
              log |-> <<"UPDATE", "SELECT">>]

(* Task.update(id, taskData): getById, return null when absent, return the *)
(* task read when nothing is to be set, else UPDATE and getById again      *)
update(tbl, t, id, data) ==
    LET existingTask == getById(tbl, id)
        sets == UpdateSets(data)
        tbl2 == UpdateRow(tbl, id, sets, t)
    IN  IF existingTask = RetNull
        THEN [table |-> tbl, ret |-> RetNull, log |-> <<"SELECT">>]
        ELSE IF DOMAIN sets = {}
        THEN [table |-> tbl, ret |-> existingTask, log |-> <<"SELECT">>]
        ELSE [table |-> tbl2, ret |-> getById(tbl2, id),
              log |-> <<"SELECT", "UPDATE", "SELECT">>]

(* markAsPending written as a copy of markAsCompleted *)
markAsPendingAsCompleted(tbl, t, id) ==
    update(tbl, t, id, [NoData EXCEPT !.completed = Bool(TRUE)])

(* Task.markAsCompleted(id) / Task.markAsPending(id) *)
markAsCompleted(tbl, t, id) == update(tbl, t, id, [NoData EXCEPT !.completed = Bool(TRUE)])

markAsPending(tbl, t, id) == update(tbl, t, id, [NoData EXCEPT !.completed = Bool(FALSE)])

(* update that returns the task of its existence check after the UPDATE  *)
updateResultFromCheck(tbl, id, existingTask) == existingTask

(* What update returns after its UPDATE statement: getById(id) again    *)
updateResult(tbl, id, existingTask) == getById(tbl, id)

----------------------------------------------------------------------------
(* delete without the existence check: DELETE, then true *)
deleteNoExistenceCheck(tbl, id) ==
    [table |-> DeleteRow(tbl, id), ret |-> RetBool(TRUE), log |-> <<"DELETE">>]

(* Task.delete(id): getById, false when absent, else DELETE and true *)
delete(tbl, id) ==
    IF getById(tbl, id) = RetNull
    THEN [table |-> tbl, ret |-> RetBool(FALSE), log |-> <<"SELECT">>]
    ELSE [table |-> DeleteRow(tbl, id), ret |-> RetBool(TRUE),
          log |-> <<"SELECT", "DELETE">>]

----------------------------------------------------------------------------
(* The calls.  The caller awaits each call before it makes the next one:   *)
(* a call is made when none is outstanding, and Return hands its result    *)
(* to the caller.                                                          *)

NoCall == [op |-> "none", id |-> 0, data |-> NoData, filters |-> NoFilters]

(* The log entry of a SELECT that the storage layer failed to answer *)
FailedSelect == "SELECT failed"

(* The log entry of a statement whose pool.execute rejected *)
Failed(statement) ==
    CASE statement = "SELECT" -> FailedSelect
      [] statement = "INSERT" -> "INSERT failed"
      [] statement = "UPDATE" -> "UPDATE failed"
      [] statement = "DELETE" -> "DELETE failed"

(* The error pool.execute rejects with *)
StorageError == "storage failure"

WriteStatements == {"INSERT", "UPDATE", "DELETE"}

(* catch (error) { ... } of a method that answers null to its caller *)
catchAndReturnNull(error) == RetNull

(* catch (error) { console.error(...); throw error; } of every method *)
catchAndRethrow(error) == RetThrow(error)

(* A call whose k-th statement is rejected, r being what the call does    *)
(* when every statement succeeds: the statements before the k-th have     *)
(* taken effect (no transaction spans them), the k-th has none, none      *)
(* follows it, and the catch block decides what the caller gets           *)
FailAt(tbl, r, k) ==
    [table |-> IF \E j \in 1 .. k - 1 : r.log[j] \in WriteStatements
               THEN r.table ELSE tbl,
     ret   |-> catchAndRethrow(StorageError),
     log   |-> Append(SubSeq(r.log, 1, k - 1), Failed(r.log[k]))]

Idle == call = NoCall

CallOf(op, id, data, filters) ==
    [op |-> op, id |-> id, data |-> data, filters |-> filters]

(* chain follows one update(id, {completed: true}) of an existing task and *)
(* the markAsPending(id) that comes right after it: stage 1 after the      *)
(* first, stage 2 after the second, with the updated_at the row had before *)
(* the first call.  Any other call ends it.                                *)
OnlyCompletedTrue == [NoData EXCEPT !.completed = Bool(TRUE)]

ChainAfter(op, id, data) ==
    IF ~chain.on
    THEN chain
    ELSE IF op = "update" /\ data = OnlyCompletedTrue /\ id \in DOMAIN table
    THEN [on |-> TRUE, stage |-> 1, id |-> id, before |-> table[id].updated_at]
    ELSE IF op = "markAsPending" /\ chain.stage = 1 /\ chain.id = id
    THEN [chain EXCEPT !.stage = 2]
    ELSE NoChain

(* The calls in progress at once (SpecRace): for each caller the call, the *)
(* statement it is to send next (pc), the task its existence check read,   *)
(* the number of rows its write statement matched (-1 before the write)    *)
(* and the value it returned                                               *)
Procs == 1 .. NumProcs

IdleProc == [op |-> "none", id |-> 0, data |-> NoData, pc |-> "idle",
             existing |-> RetNone, affected |-> -1, ret |-> RetNone]

NoProcs == [p \in Procs |-> IdleProc]

(* An empty TASK table, no call made yet *)
InitTable ==
    /\ table = EmptyTable
    /\ nextId = 1
    /\ now = 0
    /\ call = NoCall
    /\ ret = RetNone
    /\ log = <<>>
    /\ procs = NoProcs
    /\ pool = 0

Init == InitTable /\ chain = ChainOff

InitChain == InitTable /\ chain = NoChain

(* The server clock reaches the next second *)
Tick ==
    /\ Idle
    /\ now < MaxTime
    /\ now' = now + 1
    /\ UNCHANGED <<table, nextId, call, ret, log, chain, procs, pool>>

Create(data) ==
    /\ Idle
    /\ nextId <= MaxTasks
    /\ LET r == create(table, nextId, now, data)
       IN  /\ table' = r.table
           /\ ret' = r.ret
           /\ log' = r.log
    /\ nextId' = nextId + 1
    /\ call' = CallOf("create", 0, data, NoFilters)
    /\ chain' = ChainAfter("create", 0, data)
    /\ UNCHANGED <<now, procs, pool>>

Update(id, data) ==
    /\ Idle
    /\ LET r == update(table, now, id, data)
       IN  /\ table' = r.table
           /\ ret' = r.ret
           /\ log' = r.log
    /\ call' = CallOf("update", id, data, NoFilters)
    /\ chain' = ChainAfter("update", id, data)
    /\ UNCHANGED <<nextId, now, procs, pool>>

MarkAsCompleted(id) ==
    /\ Idle
    /\ LET r == markAsCompleted(table, now, id)
       IN  /\ table' = r.table
           /\ ret' = r.ret
           /\ log' = r.log
    /\ call' = CallOf("markAsCompleted", id, NoData, NoFilters)
    /\ chain' = ChainAfter("markAsCompleted", id, NoData)
    /\ UNCHANGED <<nextId, now, procs, pool>>

MarkAsPending(id) ==
    /\ Idle
    /\ LET r == markAsPending(table, now, id)
       IN  /\ table' = r.table
           /\ ret' = r.ret
           /\ log' = r.log
    /\ call' = CallOf("markAsPending", id, NoData, NoFilters)
    /\ chain' = ChainAfter("markAsPending", id, NoData)
    /\ UNCHANGED <<nextId, now, procs, pool>>

Delete(id) ==
    /\ Idle
    /\ LET r == delete(table, id)
       IN  /\ table' = r.table
           /\ ret' = r.ret
           /\ log' = r.log
    /\ call' = CallOf("delete", id, NoData, NoFilters)
    /\ chain' = ChainAfter("delete", id, NoData)
    /\ UNCHANGED <<nextId, now, procs, pool>>

GetById(id) ==
    /\ Idle
    /\ ret' = getById(table, id)
    /\ log' = <<"SELECT">>
    /\ call' = CallOf("getById", id, NoData, NoFilters)
    /\ chain' = ChainAfter("getById", id, NoData)
    /\ UNCHANGED <<table, nextId, now, procs, pool>>

(* Task.getById when pool.execute rejects (connection lost, server gone): *)
(* the catch block logs and rethrows                                       *)
GetByIdFails(id) ==
    /\ Idle
    /\ ret' = catchAndRethrow(StorageError)
    /\ log' = <<FailedSelect>>
    /\ call' = CallOf("getById", id, NoData, NoFilters)
    /\ chain' = ChainAfter("getById", id, NoData)
    /\ UNCHANGED <<table, nextId, now, procs, pool>>

(* Task.create when its k-th statement is rejected.  A rejected INSERT    *)
(* may or may not have used up an AUTO_INCREMENT value.                   *)
CreateFails(data, k) ==
    /\ Idle
    /\ nextId <= MaxTasks
    /\ LET r == create(table, nextId, now, data)
           f == FailAt(table, r, k)
       IN  /\ k <= Len(r.log)
           /\ table' = f.table
           /\ ret' = f.ret
           /\ log' = f.log
    /\ nextId' \in (IF k = 1 THEN {nextId, nextId + 1} ELSE {nextId + 1})
    /\ call' = CallOf("create", 0, data, NoFilters)
    /\ chain' = ChainAfter("create", 0, data)
    /\ UNCHANGED <<now, procs, pool>>

(* Task.update when its k-th statement is rejected *)
UpdateFails(id, data, k) ==
    /\ Idle
    /\ LET r == update(table, now, id, data)
           f == FailAt(table, r, k)
       IN  /\ k <= Len(r.log)
           /\ table' = f.table
           /\ ret' = f.ret
           /\ log' = f.log
    /\ call' = CallOf("update", id, data, NoFilters)
    /\ chain' = ChainAfter("update", id, data)
    /\ UNCHANGED <<nextId, now, procs, pool>>

(* Task.delete when its k-th statement is rejected *)
DeleteFails(id, k) ==
    /\ Idle
    /\ LET r == delete(table, id)
           f == FailAt(table, r, k)
       IN  /\ k <= Len(r.log)
           /\ table' = f.table
           /\ ret' = f.ret
           /\ log' = f.log
    /\ call' = CallOf("delete", id, NoData, NoFilters)
    /\ chain' = ChainAfter("delete", id, NoData)
    /\ UNCHANGED <<nextId, now, procs, pool>>

(* Task.getAll / Task.getCount when the SELECT is rejected *)
GetAllFails(filters) ==
    /\ Idle
    /\ ret' = catchAndRethrow(StorageError)
    /\ log' = <<FailedSelect>>
    /\ call' = CallOf("getAll", 0, NoData, filters)
    /\ chain' = ChainAfter("getAll", 0, NoData)
    /\ UNCHANGED <<table, nextId, now, procs, pool>>

GetCountFails(filters) ==
    /\ Idle
    /\ ret' = catchAndRethrow(StorageError)
    /\ log' = <<FailedSelect>>
    /\ call' = CallOf("getCount", 0, NoData, filters)
    /\ chain' = ChainAfter("getCount", 0, NoData)
    /\ UNCHANGED <<table, nextId, now, procs, pool>>

----------------------------------------------------------------------------
(* POST /api/tasks: the express-validator chain, handleValidationErrors,   *)
(* and the handler.                                                        *)

Digits == <<"0", "1", "2", "3", "4", "5", "6", "7", "8", "9">>

(* The string express-validator hands to the validators of validator.js   *)
(* for a field value (numbers here are single digits)                      *)
ValidatorToString(x) ==
    CASE x.t = "undefined" -> <<>>
      [] x.t = "null"      -> <<>>
      [] x.t = "string"    -> x.v
      [] x.t = "boolean"   -> IF x.v THEN <<"t", "r", "u", "e">>
                              ELSE <<"f", "a", "l", "s", "e">>
      [] x.t = "number"    -> <<Digits[x.v + 1]>>

(* .notEmpty() *)
notEmpty(x) == ValidatorToString(x) # <<>>

(* .isBoolean() with no options: validator.js accepts the strings         *)
(* 'true', 'false', '1' and '0'                                           *)
isBoolean(x) ==
    ValidatorToString(x) \in { <<"t", "r", "u", "e">>, <<"f", "a", "l", "s", "e">>,
                               <<"1">>, <<"0">> }

(* The fields of a POST body that fail their chain; .optional() skips a    *)
(* field that is undefined.  (isLength({max: 255}) holds for the titles    *)
(* of the model.)                                                          *)
PostErrors(body) ==
    { f \in {"title", "description", "completed"} :
        CASE f = "title"       -> ~notEmpty(body.title)
          [] f = "description" -> ~IsUndef(body.description) /\ ~IsStr(body.description)
          [] f = "completed"   -> ~IsUndef(body.completed) /\ ~isBoolean(body.completed) }

(* taskData of the POST handler: title.trim(), description ?               *)
(* description.trim() : null, completed || false                           *)
PostTaskData(body) ==
    [title       |-> Str(Trim(body.title.v)),
     description |-> IF Truthy(body.description)
                     THEN Str(Trim(body.description.v)) ELSE Null,
     completed   |-> IF Truthy(body.completed) THEN body.completed ELSE Bool(FALSE)]

PostTask(body) ==
    /\ Idle
    /\ IF PostErrors(body) # {}
       THEN /\ ret' = Response(400, "Validation errors", RetNone)
            /\ log' = <<>>
            /\ UNCHANGED <<table, nextId>>
       ELSE /\ nextId <= MaxTasks
            /\ LET r == create(table, nextId, now, PostTaskData(body))
               IN  /\ table' = r.table
                   /\ ret' = Response(201, "Task created successfully", r.ret)
                   /\ log' = r.log
            /\ nextId' = nextId + 1
    /\ call' = CallOf("POST /api/tasks", 0, body, NoFilters)
    /\ chain' = ChainAfter("POST /api/tasks", 0, body)
    /\ UNCHANGED <<now, procs, pool>>

GetAll(filters) ==
    /\ Idle
    /\ ret' \in getAll(table, filters)
    /\ log' = <<"SELECT">>
    /\ call' = CallOf("getAll", 0, NoData, filters)
    /\ chain' = ChainAfter("getAll", 0, NoData)
    /\ UNCHANGED <<table, nextId, now, procs, pool>>

(* A caller pages through the tasks while no other call is made *)
Paginate(completed, L) ==
    /\ Idle
    /\ \E pages \in getAllPages(table, completed, L) : ret' = RetPages(pages)
    /\ log' = [k \in 1 .. MaxPages |-> "SELECT"]
    /\ call' = CallOf("getAll pages", 0, NoData, PageFilters(completed, L, 0))
    /\ chain' = ChainAfter("getAll pages", 0, NoData)
    /\ UNCHANGED <<table, nextId, now, procs, pool>>

GetCount(filters) ==
    /\ Idle
    /\ ret' = RetCount(getCount(table, filters))
    /\ log' = <<"SELECT">>
    /\ call' = CallOf("getCount", 0, NoData, filters)
    /\ chain' = ChainAfter("getCount", 0, NoData)
    /\ UNCHANGED <<table, nextId, now, procs, pool>>

(* The caller receives the result of the outstanding call *)
Return ==
    /\ ~Idle
    /\ call' = NoCall
    /\ ret' = RetNone
    /\ log' = <<>>
    /\ UNCHANGED <<table, nextId, now, chain, procs, pool>>

Next ==
    \/ Tick
    \/ Return
    \/ \E data \in CreateData : Create(data)
    \/ \E id \in Ids, data \in UpdateData : Update(id, data)
    \/ \E id \in Ids : MarkAsCompleted(id)
    \/ \E id \in Ids : MarkAsPending(id)
    \/ \E id \in Ids : Delete(id)
    \/ \E id \in Ids : GetById(id)
    \/ \E filters \in CountFilters : GetCount(filters)

Spec == Init /\ [][Next]_vars

NextList ==
    \/ Tick
    \/ Return
    \/ \E data \in PlainCreateData : Create(data)
    \/ \E id \in Ids : MarkAsCompleted(id)
    \/ \E id \in Ids : MarkAsPending(id)
    \/ \E id \in Ids, data \in CompletedUpdateData : Update(id, data)
    \/ \E id \in Ids : Delete(id)
    \/ \E id \in Ids : GetById(id)
    \/ \E filters \in ListFilters : GetAll(filters)
    \/ \E filters \in CountFilters : GetCount(filters)

SpecList == Init /\ [][NextList]_vars

NextPages ==
    \/ Tick
    \/ Return
    \/ \E data \in PlainCreateData : Create(data)
    \/ \E id \in Ids : Delete(id)
    \/ \E completed \in CompletedInputs, L \in PageSizes : Paginate(completed, L)

SpecPages == Init /\ [][NextPages]_vars

NextChain ==
    \/ Tick
    \/ Return
    \/ \E data \in PlainCreateData : Create(data)
    \/ \E id \in Ids, data \in CompletedUpdateData : Update(id, data)
    \/ \E id \in Ids : MarkAsCompleted(id)
    \/ \E id \in Ids : MarkAsPending(id)
    \/ \E id \in Ids : Delete(id)

SpecChain == InitChain /\ [][NextChain]_vars

NextEdit ==
    \/ Return
    \/ \E data \in DescribedCreateData : Create(data)
    \/ \E id \in Ids, data \in EditData : Update(id, data)
    \/ \E id \in Ids : Delete(id)

SpecEdit == Init /\ [][NextEdit]_vars

NextInput ==
    \/ Return
    \/ \E body \in PostBodies : PostTask(body)
    \/ \E data \in LooseCreateData : Create(data)
    \/ \E id \in Ids, data \in LooseUpdateData : Update(id, data)
    \/ \E id \in Ids : Delete(id)
    \/ \E filters \in LooseFilters : GetAll(filters)
    \/ \E filters \in LooseFilters : GetCount(filters)

SpecInput == Init /\ [][NextInput]_vars

NextFault ==
    \/ Tick
    \/ Return
    \/ \E data \in PlainCreateData : Create(data)
    \/ \E id \in Ids : MarkAsCompleted(id)
    \/ \E id \in Ids : Delete(id)
    \/ \E id \in Ids : GetById(id)
    \/ \E id \in Ids : GetByIdFails(id)
    \/ \E data \in PlainCreateData, k \in 1 .. 2 : CreateFails(data, k)
    \/ \E id \in Ids, data \in CompletedUpdateData, k \in 1 .. 3 : UpdateFails(id, data, k)
    \/ \E id \in Ids, k \in 1 .. 2 : DeleteFails(id, k)
    \/ \E filters \in CountFilters : GetAllFails(filters)
    \/ \E filters \in CountFilters : GetCountFails(filters)

SpecFault == Init /\ [][NextFault]_vars

----------------------------------------------------------------------------
(* Calls in progress at once.  Every await of a model method is a point    *)
(* where the statements of other requests run, so a call is a sequence of  *)
(* steps, one per statement sent to the pool; procs[p] holds the locals    *)
(* of the call that request p has in progress.                             *)

ProcAt(p, op, pc) == procs[p].op = op /\ procs[p].pc = pc

SeqUnchanged == UNCHANGED <<now, call, ret, log, chain, pool>>

(* create: the INSERT; result.insertId is the AUTO_INCREMENT value *)
CreateInsert(p, data) ==
    /\ procs[p].pc = "idle"
    /\ nextId <= MaxTasks
    /\ table' = InsertRow(table, nextId, CreateRow(data, now))
    /\ nextId' = nextId + 1
    /\ procs' = [procs EXCEPT ![p] =
                    [IdleProc EXCEPT !.op = "create", !.id = nextId, !.data = data,
                                     !.pc = "written", !.affected = 1]]
    /\ SeqUnchanged

(* create: return await this.getById(result.insertId) *)
CreateReadBack(p) ==
    /\ ProcAt(p, "create", "written")
    /\ procs' = [procs EXCEPT ![p].ret = getById(table, procs[p].id),
                              ![p].pc = "done"]
    /\ UNCHANGED <<table, nextId>>
    /\ SeqUnchanged

(* update: the existence check, the SET list and the two early returns *)
UpdateCheck(p, id, data) ==
    /\ procs[p].pc = "idle"
    /\ LET existingTask == getById(table, id)
           started == [IdleProc EXCEPT !.op = "update", !.id = id, !.data = data,
                                       !.existing = existingTask]
       IN  procs' = [procs EXCEPT ![p] =
                IF existingTask = RetNull
                THEN [started EXCEPT !.ret = RetNull, !.pc = "done"]
                ELSE IF DOMAIN UpdateSets(data) = {}
                THEN [started EXCEPT !.ret = existingTask, !.pc = "done"]
                ELSE [started EXCEPT !.pc = "checked"]]
    /\ UNCHANGED <<table, nextId>>
    /\ SeqUnchanged

(* update: the UPDATE statement; its affectedRows is not read *)
UpdateWrite(p) ==
    /\ ProcAt(p, "update", "checked")
    /\ table' = UpdateRow(table, procs[p].id, UpdateSets(procs[p].data), now)
    /\ procs' = [procs EXCEPT ![p].affected =
                                  IF procs[p].id \in DOMAIN table THEN 1 ELSE 0,
                              ![p].pc = "written"]
    /\ UNCHANGED nextId
    /\ SeqUnchanged

(* update: return await this.getById(id) *)
UpdateReadBack(p) ==
    /\ ProcAt(p, "update", "written")
    /\ procs' = [procs EXCEPT ![p].ret =
                                  updateResult(table, procs[p].id, procs[p].existing),
                              ![p].pc = "done"]
    /\ UNCHANGED <<table, nextId>>
    /\ SeqUnchanged

(* delete: the existence check and its early return *)
DeleteCheck(p, id) ==
    /\ procs[p].pc = "idle"
    /\ LET existingTask == getById(table, id)
           started == [IdleProc EXCEPT !.op = "delete", !.id = id,
                                       !.existing = existingTask]
       IN  procs' = [procs EXCEPT ![p] =
                IF existingTask = RetNull
                THEN [started EXCEPT !.ret = RetBool(FALSE), !.pc = "done"]
                ELSE [started EXCEPT !.pc = "checked"]]
    /\ UNCHANGED <<table, nextId>>
    /\ SeqUnchanged

(* delete: the DELETE statement, then return true; affectedRows is not read *)
DeleteWrite(p) ==
    /\ ProcAt(p, "delete", "checked")
    /\ table' = DeleteRow(table, procs[p].id)
    /\ procs' = [procs EXCEPT ![p].affected =
                                  IF procs[p].id \in DOMAIN table THEN 1 ELSE 0,
                              ![p].ret = RetBool(TRUE),
                              ![p].pc = "done"]
    /\ UNCHANGED nextId
    /\ SeqUnchanged

(* GET /api/tasks/stats: const totalTasks = await Task.getCount() *)
StatsTotal(p) ==
    /\ procs[p].pc = "idle"
    /\ procs' = [procs EXCEPT ![p] =
                    [IdleProc EXCEPT !.op = "stats", !.pc = "total",
                                     !.ret = RetStats(getCount(table, NoFilters), -1, -1)]]
    /\ UNCHANGED <<table, nextId>>
    /\ SeqUnchanged

(* const completedTasks = await Task.getCount({ completed: true }) *)
StatsCompleted(p) ==
    /\ ProcAt(p, "stats", "total")
    /\ procs' = [procs EXCEPT
                    ![p].ret.completed =
                        getCount(table, [NoFilters EXCEPT !.completed = Bool(TRUE)]),
                    ![p].pc = "completed"]
    /\ UNCHANGED <<table, nextId>>
    /\ SeqUnchanged

(* const pendingTasks = await Task.getCount({ completed: false }); res.json *)
StatsPending(p) ==
    /\ ProcAt(p, "stats", "completed")
    /\ procs' = [procs EXCEPT
                    ![p].ret.pending =
                        getCount(table, [NoFilters EXCEPT !.completed = Bool(FALSE)]),
                    ![p].pc = "done"]
    /\ UNCHANGED <<table, nextId>>
    /\ SeqUnchanged

----------------------------------------------------------------------------
(* testConnection, called by GET /health.  pool counts the connections     *)
(* that getConnection has handed out and that have neither been released   *)
(* nor removed from the pool.                                              *)

(* const connection = await getPool().getConnection(): with every          *)
(* connection out, the call waits (waitForConnections: true, queueLimit: 0)*)
GetConnection(p) ==
    /\ procs[p].pc = "idle"
    /\ pool < ConnectionLimit
    /\ pool' = pool + 1
    /\ procs' = [procs EXCEPT ![p] =
                    [IdleProc EXCEPT !.op = "testConnection", !.pc = "connected"]]
    /\ UNCHANGED <<table, nextId, now, call, ret, log, chain>>

(* getConnection rejects (server unreachable): catch, return false *)
GetConnectionFails(p) ==
    /\ procs[p].pc = "idle"
    /\ procs' = [procs EXCEPT ![p] =
                    [IdleProc EXCEPT !.op = "testConnection", !.pc = "done",
                                     !.ret = RetBool(FALSE)]]
    /\ UNCHANGED <<table, nextId, now, call, ret, log, chain, pool>>

(* await connection.execute('SELECT 1'); connection.release(); return true *)
SelectOne(p) ==
    /\ ProcAt(p, "testConnection", "connected")
    /\ pool' = pool - 1
    /\ procs' = [procs EXCEPT ![p].ret = RetBool(TRUE), ![p].pc = "done"]
    /\ UNCHANGED <<table, nextId, now, call, ret, log, chain>>

(* connection.execute('SELECT 1') rejects: the catch block returns false   *)
(* and connection.release() is not reached.  After a fatal error (the      *)
(* connection was lost) mysql2 itself removes the connection from the      *)
(* pool; after any other error the connection stays handed out.            *)
SelectOneFails(p, fatal) ==
    /\ ProcAt(p, "testConnection", "connected")
    /\ pool' = IF fatal THEN pool - 1 ELSE pool
    /\ procs' = [procs EXCEPT ![p].ret = RetBool(FALSE), ![p].pc = "done"]
    /\ UNCHANGED <<table, nextId, now, call, ret, log, chain>>

(* GET /health answers and the request ends *)
HealthAnswer(p) ==
    /\ ProcAt(p, "testConnection", "done")
    /\ procs' = [procs EXCEPT ![p] = IdleProc]
    /\ UNCHANGED <<table, nextId, now, call, ret, log, chain, pool>>

NextPool ==
    \/ \E p \in Procs : GetConnection(p)
    \/ \E p \in Procs : GetConnectionFails(p)
    \/ \E p \in Procs : SelectOne(p)
    \/ \E p \in Procs, fatal \in BOOLEAN : SelectOneFails(p, fatal)
    \/ \E p \in Procs : HealthAnswer(p)

SpecPool == Init /\ [][NextPool]_vars

(* The requests arrive at a table that an earlier, completed create has  *)
(* given its first row; each request makes one call.                     *)
InitRace ==
    /\ \E data \in PlainCreateData : table = create(EmptyTable, 1, 0, data).table
    /\ nextId = 2
    /\ now = 0
    /\ call = NoCall
    /\ ret = RetNone
    /\ log = <<>>
    /\ chain = ChainOff
    /\ procs = NoProcs
    /\ pool = 0

NextRace ==
    \/ \E p \in Procs, data \in PlainCreateData : CreateInsert(p, data)
    \/ \E p \in Procs : CreateReadBack(p)
    \/ \E p \in Procs, id \in Ids, data \in RaceUpdateData : UpdateCheck(p, id, data)
    \/ \E p \in Procs : UpdateWrite(p)
    \/ \E p \in Procs : UpdateReadBack(p)
    \/ \E p \in Procs, id \in Ids : DeleteCheck(p, id)
    \/ \E p \in Procs : DeleteWrite(p)
    \/ \E p \in Procs : StatsTotal(p)
    \/ \E p \in Procs : StatsCompleted(p)
    \/ \E p \in Procs : StatsPending(p)

SpecRace == InitRace /\ [][NextRace]_vars

----------------------------------------------------------------------------
(* Properties *)

Range(s) == { s[i] : i \in DOMAIN s }

ListIds(l) == [i \in DOMAIN l |-> l[i].id]

Writes == {"INSERT", "UPDATE", "DELETE"}

InLimitRange(x) == IsNum(x) /\ x.v >= 1 /\ x.v <= MaxLimit

(* C1: Task.create(data) followed by Task.getById(returned id) yields a    *)
(* task whose title is the trimmed input title, whose completed is the     *)
(* supplied value (false when omitted) and whose description is null when  *)
(* description was omitted.                                                *)
C1_CreateThenGetById ==
    call.op = "create" =>
        /\ ret.kind = "task"
        /\ LET got == getById(table, ret.val.id)
           IN  /\ got.kind = "task"
               /\ got.val.title = Trim(call.data.title.v)
               /\ got.val.completed = (IF IsUndef(call.data.completed) THEN FALSE
                                       ELSE call.data.completed.v)
               /\ IsUndef(call.data.description) => got.val.description = Null

(* C2: Task.update(id, data) of an existing task with none of title,       *)
(* description, completed in data returns the task as stored, sends no     *)
(* write statement and leaves the table, updated_at included, unchanged.   *)
C2_EmptyUpdateIsNoOp ==
    [][ (Idle /\ call'.op = "update" /\ call'.data = NoData /\ call'.id \in DOMAIN table)
        => /\ ret' = getById(table, call'.id)
           /\ Range(log') \cap Writes = {}
           /\ table' = table ]_vars

C2_Witness ==
    /\ call.op = "update" /\ call.data = NoData
    /\ ret.kind = "task" /\ ret.val.updated_at < now

(* C3 as stated: after update(id, {completed: true}) and then              *)
(* markAsPending(id) the task has completed === false and an updated_at    *)
(* strictly later than before the two calls.                               *)
C3_StrictlyLater ==
    (chain.stage = 2 /\ call.op = "markAsPending") =>
        /\ ret.kind = "task"
        /\ ret.val.completed = FALSE
        /\ ret.val.updated_at > chain.before

(* C3 amended: after the two calls the task has completed === false and    *)
(* an updated_at that is the second of the last write, not earlier than    *)
(* before the two calls, and strictly later exactly when the clock has     *)
(* reached a later second than the earlier updated_at.                     *)
C3_NotEarlier ==
    (chain.stage = 2 /\ call.op = "markAsPending") =>
        /\ ret.kind = "task"
        /\ ret.val.completed = FALSE
        /\ table[chain.id].completed = 0
        /\ ret.val.updated_at = table[chain.id].updated_at
        /\ ret.val.updated_at >= chain.before
        /\ (ret.val.updated_at > chain.before) <=> (now > chain.before)

C3_Witness ==
    /\ chain.stage = 2 /\ call.op = "markAsPending"
    /\ ret.kind = "task" /\ ret.val.updated_at > chain.before

(* C4: once Task.delete(id) has removed a row, getById(id) is null in      *)
(* every later state; delete of an id without a row returns false and      *)
(* changes nothing.                                                        *)
C4_DeleteIsFinal ==
    [][ /\ \A i \in Ids : (i < nextId /\ getById(table, i) = RetNull)
                              => getById(table', i) = RetNull
        /\ (Idle /\ call'.op = "delete") =>
              IF call'.id \in DOMAIN table
              THEN ret' = RetBool(TRUE) /\ getById(table', call'.id) = RetNull
              ELSE ret' = RetBool(FALSE) /\ table' = table /\ nextId' = nextId
                   /\ Range(log') \cap Writes = {} ]_vars

C4_Witness ==
    /\ call.op = "create"
    /\ \E i \in Ids : i < nextId /\ getById(table, i) = RetNull

(* C5: Task.getAll({completed: b}) returns only tasks whose completed is   *)
(* b, and without limit and offset it returns every such task once.        *)
C5_FilterByCompleted ==
    (call.op = "getAll" /\ call.filters.completed.t = "boolean") =>
        LET b == call.filters.completed.v
            unpaged == IsUndef(call.filters.limit) /\ IsUndef(call.filters.offset)
        IN  /\ unpaged => ret.kind = "list"
            /\ ret.kind = "list" =>
                 /\ \A k \in DOMAIN ret.val : ret.val[k].completed = b
                 /\ unpaged =>
                      /\ Range(ListIds(ret.val)) =
                           { i \in DOMAIN table : (table[i].completed # 0) = b }
                      /\ Len(ret.val) = Cardinality(Range(ListIds(ret.val)))

C5_Witness ==
    /\ call.op = "getAll" /\ call.filters = [NoFilters EXCEPT !.completed = Bool(FALSE)]
    /\ ret.kind = "list" /\ Len(ret.val) >= 1
    /\ \E i \in DOMAIN table : table[i].completed = 1

(* C6: on every table reachable through create, update, markAsCompleted,   *)
(* markAsPending and delete, getCount({completed: true}) +                 *)
(* getCount({completed: false}) = getCount({}).                            *)
C6_CountsAddUp ==
    getCount(table, [NoFilters EXCEPT !.completed = Bool(TRUE)])
      + getCount(table, [NoFilters EXCEPT !.completed = Bool(FALSE)])
      = getCount(table, NoFilters)

C6_Witness ==
    /\ call.op = "getCount" /\ call.filters.completed = Bool(FALSE)
    /\ ret.kind = "count" /\ ret.val = 1
    /\ Cardinality(DOMAIN table) = 2

(* C7: Task.getAll({limit: L, offset: 0}) with 1 <= L <= 100 returns at    *)
(* most L tasks: the L newest matching ones (all of them when fewer        *)
(* match), in descending created_at order.                                 *)
C7_LimitNewestFirst ==
    (call.op = "getAll" /\ InLimitRange(call.filters.limit)
        /\ call.filters.offset = Num(0)) =>
        /\ ret.kind = "list"
        /\ LET L == call.filters.limit.v
               M == Matching(table, WhereOf(call.filters))
               got == ListIds(ret.val)
           IN  /\ Len(got) <= L
               /\ Len(got) = Min(L, Cardinality(M))
               /\ Range(got) \subseteq M
               /\ Cardinality(Range(got)) = Len(got)
               /\ \A i, j \in DOMAIN got :
                     i < j => ret.val[i].created_at >= ret.val[j].created_at
               /\ \A i \in Range(got), m \in M \ Range(got) :
                     table[i].created_at >= table[m].created_at

C7_Witness ==
    /\ call.op = "getAll" /\ call.filters.limit = Num(1) /\ call.filters.offset = Num(0)
    /\ ret.kind = "list" /\ Len(ret.val) = 1
    /\ \E m \in Matching(table, WhereOf(call.filters)) :
          table[m].created_at < ret.val[1].created_at

(* C8: Task.getAll with a limit outside 1..100, whatever the offset, does  *)
(* not fail and returns what the call without limit returns.               *)
C8_OutOfRangeLimitIgnored ==
    (call.op = "getAll" /\ IsNum(call.filters.limit) /\ ~InLimitRange(call.filters.limit)) =>
        /\ ret.kind = "list"
        /\ ret \in getAll(table, [call.filters EXCEPT !.limit = Undef])

(* C9: Task.getAll with an offset O >= 0, with or without a limit,         *)
(* succeeds and returns the matching tasks newest first with the first O   *)
(* skipped; an offset below 0 is ignored.                                  *)
C9_OffsetSkips ==
    (call.op = "getAll" /\ IsNum(call.filters.offset)) =>
        /\ ret.kind = "list"
        /\ LET O == call.filters.offset.v
               M == Matching(table, WhereOf(call.filters))
           IN  \E s \in Orderings(table, M) :
                  ListIds(ret.val) =
                     Page(s, LimitOf(call.filters), IF O >= 0 THEN <<O>> ELSE <<>>)

(* C10: Task.update(id, data) on an id without a row returns null,         *)
(* whatever data holds, sends no write statement and leaves the table      *)
(* unchanged.                                                              *)
C10_UpdateOfAbsentId ==
    [][ (Idle /\ call'.op = "update" /\ call'.id \notin DOMAIN table)
        => /\ ret' = RetNull
           /\ Range(log') \cap Writes = {}
           /\ table' = table ]_vars

C10_Witness ==
    /\ call.op = "update" /\ call.data # NoData
    /\ ret = RetNull /\ table # EmptyTable

(* C11: Task.update(id, data) of an existing task changes only the columns *)
(* among title, description, completed that data holds, and updated_at:    *)
(* a column absent from data and created_at keep their values, and every   *)
(* other row of the table is unchanged.                                    *)
C11_UpdateFrame ==
    [][ (Idle /\ call'.op = "update" /\ call'.id \in DOMAIN table)
        => /\ DOMAIN table' = DOMAIN table
           /\ \A j \in DOMAIN table \ {call'.id} : table'[j] = table[j]
           /\ IsUndef(call'.data.title) =>
                 table'[call'.id].title = table[call'.id].title
           /\ IsUndef(call'.data.description) =>
                 table'[call'.id].description = table[call'.id].description
           /\ IsUndef(call'.data.completed) =>
                 table'[call'.id].completed = table[call'.id].completed
           /\ table'[call'.id].created_at = table[call'.id].created_at ]_vars

C11_Witness ==
    /\ call.op = "update" /\ ret.kind = "task"
    /\ ~IsUndef(call.data.title)
    /\ IsUndef(call.data.description) /\ IsUndef(call.data.completed)
    /\ ret.val.description = Str(<<"d">>) /\ ret.val.completed = TRUE
    /\ Cardinality(DOMAIN table) = 2

(* C14: from every table and for every id, markAsCompleted(id) returns     *)
(* what update(id, {completed: true}) returns and leaves the table that    *)
(* call leaves, and markAsPending(id) does so for update(id, {completed:   *)
(* false}).                                                                *)
C14_MarkIsUpdate ==
    [][ (Idle /\ call'.op \in {"markAsCompleted", "markAsPending"})
        => LET u == update(table, now, call'.id,
                       [NoData EXCEPT !.completed = Bool(call'.op = "markAsCompleted")])
           IN  /\ table' = u.table
               /\ ret' = u.ret
               /\ log' = u.log ]_vars

C14_Witness ==
    /\ call.op = "markAsPending" /\ ret.kind = "task"
    /\ ret.val.completed = FALSE /\ ret.val.updated_at > ret.val.created_at

(* C16: Task.getById(id) on an id without a row returns null and does not  *)
(* throw; it throws only when the storage query itself fails.              *)
C16_GetByIdAbsence ==
    call.op = "getById" =>
        /\ (ret.kind = "throw") <=> (log = <<FailedSelect>>)
        /\ (log = <<"SELECT">> /\ call.id \notin DOMAIN table) => ret = RetNull
        /\ (log = <<"SELECT">> /\ call.id \in DOMAIN table) =>
              (ret.kind = "task" /\ ret.val.id = call.id)

C16_Witness ==
    /\ call.op = "getById" /\ ret = RetNull
    /\ call.id < nextId /\ table # EmptyTable

(* C17: getAll, getById and getCount leave every row of the table as it    *)
(* was and send no write statement, and what getAll returns is a sequence, *)
(* the empty one when no row matches, never null.                          *)
C17_ReadsAreReadOnly ==
    [][ (Idle /\ call'.op \in {"getAll", "getById", "getCount"})
        => /\ table' = table
           /\ nextId' = nextId
           /\ Range(log') \cap Writes = {}
           /\ call'.op = "getAll" =>
                 /\ ret'.kind \in {"list", "throw"}
                 /\ (ret'.kind = "list"
                       /\ Matching(table, WhereOf(call'.filters)) = {})
                    => ret'.val = <<>> ]_vars

C17_Witness ==
    /\ call.op = "getAll" /\ ret = RetList(<<>>)
    /\ table # EmptyTable

(* C18: in every table reachable through create, update, markAsCompleted,  *)
(* markAsPending and delete no row has a title that is empty or that       *)
(* begins or ends with whitespace.                                         *)
C18_TitlesTrimmed ==
    \A i \in DOMAIN table :
        table[i].title # <<>> /\ table[i].title = Trim(table[i].title)

(* C19: the completed field of every task that getAll, getById, create,    *)
(* update, markAsCompleted or markAsPending returns is a boolean, and it   *)
(* is true exactly when the row stores 1.                                  *)
IsBoolean(x) == ToString(x) \in {"TRUE", "FALSE"}

CompletedIsNative(task) ==
    /\ IsBoolean(task.completed)
    /\ task.id \in DOMAIN table
    /\ task.completed <=> (table[task.id].completed = 1)

C19_CompletedIsBoolean ==
    /\ ret.kind = "task" => CompletedIsNative(ret.val)
    /\ ret.kind = "list" => \A k \in DOMAIN ret.val : CompletedIsNative(ret.val[k])

C19_Witness ==
    /\ call.op = "getAll" /\ ret.kind = "list"
    /\ \E k \in DOMAIN ret.val : ret.val[k].completed = TRUE
    /\ \E k \in DOMAIN ret.val : ret.val[k].completed = FALSE

(* C20: in every reachable table every row has updated_at >= created_at.   *)
C20_UpdatedNotBeforeCreated ==
    \A i \in DOMAIN table : table[i].updated_at >= table[i].created_at

C20_Witness ==
    /\ call.op \in {"update", "markAsCompleted", "markAsPending"}
    /\ ret.kind = "task" /\ ret.val.updated_at > ret.val.created_at
    /\ \E i \in DOMAIN table : table[i].created_at > 0

(* C12: Task.delete(id) returns true exactly when this call's DELETE       *)
(* removed a row, and false otherwise, in every interleaving of delete     *)
(* calls, so the removal of one row is reported by at most one call.       *)
C12_DeleteTrueIffRemoved ==
    \A p \in Procs :
        ProcAt(p, "delete", "done") =>
            (procs[p].ret = RetBool(TRUE) <=> procs[p].affected = 1)

(* C13 as stated: when the existence check of update(id, data), data       *)
(* holding a recognized field, succeeded and its UPDATE affected no row,   *)
(* update returns a Task, the stale one.                                   *)
C13_StaleTaskReturned ==
    \A p \in Procs :
        (/\ ProcAt(p, "update", "done")
         /\ procs[p].existing # RetNull
         /\ procs[p].affected = 0)
        => procs[p].ret.kind = "task"

(* C13: an interleaving of delete(id) with update(id, data), data holding  *)
(* a recognized field, exists in which the existence check of the update   *)
(* succeeds and its UPDATE affects no row, and in every such interleaving  *)
(* update returns null, not a Task.                                        *)
C13_ZeroRowUpdateReturnsNull ==
    \A p \in Procs :
        (/\ ProcAt(p, "update", "done")
         /\ procs[p].existing # RetNull
         /\ procs[p].affected = 0)
        => procs[p].ret = RetNull

C13_Witness ==
    \E p, q \in Procs :
        /\ ProcAt(p, "update", "done")
        /\ procs[p].existing.kind = "task"
        /\ ~IsUndef(procs[p].data.completed)
        /\ procs[p].affected = 0
        /\ ProcAt(q, "delete", "done") /\ procs[q].id = procs[p].id
        /\ procs[q].affected = 1

(* C15: when the INSERT of Task.create succeeded, create returns the Task  *)
(* with the id the INSERT assigned, never null, whatever other calls run   *)
(* between the INSERT and the read-back.                                   *)
C15_CreateReturnsTask ==
    \A p \in Procs :
        ProcAt(p, "create", "done") =>
            (procs[p].ret.kind = "task" /\ procs[p].ret.val.id = procs[p].id)

(* C21: no operation changes the id or the created_at of an existing       *)
(* task: across every step a row that stays in the table keeps its         *)
(* created_at, a new row gets the next AUTO_INCREMENT id, and the task     *)
(* that update, markAsCompleted or markAsPending returns has the id asked  *)
(* for and the created_at the row had before the call.                     *)
C21_IdAndCreatedAtKept ==
    [][ /\ \A i \in DOMAIN table \cap DOMAIN table' :
              table'[i].created_at = table[i].created_at
        /\ DOMAIN table' \ DOMAIN table \subseteq {nextId}
        /\ (Idle /\ call'.op \in {"update", "markAsCompleted", "markAsPending"}
              /\ ret'.kind = "task")
           => /\ ret'.val.id = call'.id
              /\ ret'.val.created_at = table[call'.id].created_at ]_vars

C21_Witness ==
    /\ call.op = "markAsCompleted" /\ ret.kind = "task"
    /\ ret.val.id = nextId - 1
    /\ ret.val.created_at = 0 /\ ret.val.updated_at = MaxTime

(* C23: Task.update with a description of null or of the empty string      *)
(* stores NULL, and with a title stores the title without its leading and  *)
(* trailing whitespace (and otherwise as given).                           *)
IsSpaces(s) == \A i \in DOMAIN s : s[i] = " "

IsTrimOf(stored, given) ==
    /\ stored # <<>> => (Head(stored) # " " /\ stored[Len(stored)] # " ")
    /\ \E i \in 0 .. Len(given) :
          /\ i + Len(stored) <= Len(given)
          /\ IsSpaces(SubSeq(given, 1, i))
          /\ SubSeq(given, i + 1, i + Len(stored)) = stored
          /\ IsSpaces(SubSeq(given, i + Len(stored) + 1, Len(given)))

C23_UpdateClearsAndTrims ==
    [][ (Idle /\ call'.op = "update" /\ call'.id \in DOMAIN table)
        => /\ call'.data.description \in {Null, Str(<<>>)} =>
                 table'[call'.id].description = Null
           /\ IsStr(call'.data.title) =>
                 IsTrimOf(table'[call'.id].title, call'.data.title.v) ]_vars

C23_Witness ==
    /\ call.op = "update" /\ ret.kind = "task"
    /\ call.data.description = Str(<<>>) /\ call.data.title = Str(<<" ", "a", " ">>)
    /\ ret.val.description = Null /\ ret.val.title = <<"a">>

(* C22: when a statement of a Data-Access operation is rejected by the     *)
(* storage, the operation throws that same error to its caller (it does    *)
(* not return null, false or an empty list), the rejected statement is     *)
(* the last one the operation sends (no retry), and the table is as the    *)
(* statements before the rejected one left it: unchanged when no write     *)
(* came before it.                                                         *)
FailedStatements == { Failed(st) : st \in {"SELECT", "INSERT", "UPDATE", "DELETE"} }

C22_FailurePropagates ==
    [][ (Idle /\ \E j \in DOMAIN log' : log'[j] \in FailedStatements)
        => /\ ret'.kind = "throw" /\ ret'.val = StorageError
           /\ ret' \notin {RetNull, RetBool(FALSE), RetList(<<>>)}
           /\ \A j \in DOMAIN log' : log'[j] \in FailedStatements <=> j = Len(log')
           /\ (\A j \in DOMAIN log' : log'[j] \notin Writes) => table' = table
           /\ (call'.op = "create" /\ log'[1] = "INSERT")
                 => table' = create(table, nextId, now, call'.data).table
           /\ (call'.op = "update" /\ Len(log') = 3)
                 => table' = update(table, now, call'.id, call'.data).table ]_vars

C22_Witness ==
    /\ call.op = "delete" /\ call.id \in DOMAIN table
    /\ log = <<"SELECT", Failed("DELETE")>>
    /\ ret = RetThrow(StorageError)

(* C24: a POST /api/tasks whose body has no title, or whose completed is   *)
(* not a boolean, is answered 400 'Validation errors' without a call of    *)
(* Task.create: no statement is sent and the table is unchanged.           *)
C24_InvalidPostRejected ==
    [][ (/\ Idle /\ call'.op = "POST /api/tasks"
         /\ \/ IsUndef(call'.data.title)
            \/ (~IsUndef(call'.data.completed) /\ call'.data.completed.t # "boolean"))
        => /\ ret'.status = 400 /\ ret'.message = "Validation errors"
           /\ log' = <<>>
           /\ table' = table /\ nextId' = nextId ]_vars

(* C29: Task.create and Task.update store completed 1 only for the         *)
(* boolean true and 0 for every other value given, and getAll and          *)
(* getCount with a completed filter that is defined and is not the         *)
(* boolean true select the rows that store 0.                              *)
C29_OnlyTrueIsTrue ==
    [][ Idle =>
        /\ call'.op = "create" =>
              table'[nextId].completed = (IF call'.data.completed = Bool(TRUE) THEN 1 ELSE 0)
        /\ (call'.op = "update" /\ call'.id \in DOMAIN table
              /\ ~IsUndef(call'.data.completed)) =>
              table'[call'.id].completed = (IF call'.data.completed = Bool(TRUE) THEN 1 ELSE 0)
        /\ (call'.op = "getAll" /\ call'.filters.completed \notin {Undef, Bool(TRUE)}) =>
              /\ ret'.kind = "list"
              /\ Range(ListIds(ret'.val)) = { i \in DOMAIN table : table[i].completed = 0 }
        /\ (call'.op = "getCount" /\ call'.filters.completed \notin {Undef, Bool(TRUE)}) =>
              ret' = RetCount(Cardinality({ i \in DOMAIN table : table[i].completed = 0 }))
      ]_vars

C29_Witness ==
    /\ call.op = "getAll" /\ call.filters.completed = Str(<<"t", "r", "u", "e">>)
    /\ ret.kind = "list" /\ Len(ret.val) = 1
    /\ \E i \in DOMAIN table : table[i].completed = 1
    /\ \E i \in DOMAIN table : table[i].completed = 0

(* C25: the Task that update(id, {completed: v}), markAsCompleted(id) or   *)
(* markAsPending(id) returns has completed equal to the value the call     *)
(* wrote, in every interleaving with other such calls on the same id.      *)
C25_ReturnsOwnWrite ==
    \A p \in Procs :
        (/\ ProcAt(p, "update", "done")
         /\ ~IsUndef(procs[p].data.completed)
         /\ procs[p].ret.kind = "task")
        => procs[p].ret.val.completed = IsTrue(procs[p].data.completed)

(* C26: every answer of GET /api/tasks/stats has total = completed +       *)
(* pending, whatever calls run between the three getCount calls of the     *)
(* handler.                                                                *)
C26_StatsAddUp ==
    \A p \in Procs :
        ProcAt(p, "stats", "done") =>
            procs[p].ret.total = procs[p].ret.completed + procs[p].ret.pending

(* C27: when two update calls on the same existing id that set disjoint    *)
(* fields have both written, and no other call has written that row, the   *)
(* row holds the values of both, in every interleaving.                    *)
FieldsOf(data) == { c \in UpdatableColumns : ~IsUndef(data[c]) }

HoldsFieldsOf(row, data) ==
    /\ "title" \in FieldsOf(data) => IsTrimOf(row.title, data.title.v)
    /\ "completed" \in FieldsOf(data) => (row.completed = 1 <=> data.completed = Bool(TRUE))

HasWritten(p, id) ==
    /\ procs[p].op \in {"update", "delete"} /\ procs[p].id = id
    /\ procs[p].affected = 1

C27_DisjointUpdatesBothKept ==
    \A p, q \in Procs :
        (/\ p # q
         /\ procs[p].op = "update" /\ procs[q].op = "update"
         /\ procs[p].id = procs[q].id
         /\ HasWritten(p, procs[p].id) /\ HasWritten(q, procs[p].id)
         /\ FieldsOf(procs[p].data) \cap FieldsOf(procs[q].data) = {}
         /\ \A r \in Procs \ {p, q} : ~HasWritten(r, procs[p].id))
        => /\ procs[p].id \in DOMAIN table
           /\ HoldsFieldsOf(table[procs[p].id], procs[p].data)
           /\ HoldsFieldsOf(table[procs[p].id], procs[q].data)

C27_Witness ==
    \E p, q \in Procs :
        /\ ProcAt(p, "update", "done") /\ ProcAt(q, "update", "done")
        /\ procs[p].id = procs[q].id
        /\ procs[p].affected = 1 /\ procs[q].affected = 1
        /\ FieldsOf(procs[p].data) = {"title"}
        /\ procs[q].data.completed = Bool(TRUE)
        /\ procs[q].ret.kind = "task" /\ procs[q].ret.val.title = <<"a">>
        /\ table[procs[p].id].title = <<"b">>
        /\ table[procs[p].id].completed = 1

(* C28: on a fixed table and for a page size L in 1..100, the pages        *)
(* getAll({limit: L}), getAll({limit: L, offset: L}), getAll({limit: L,    *)
(* offset: 2L}), ... together hold every matching task exactly once, also  *)
(* when tasks share a created_at.                                          *)
RECURSIVE Flatten(_)
Flatten(ss) == IF ss = <<>> THEN <<>> ELSE Head(ss) \o Flatten(Tail(ss))

C28_PagesPartition ==
    ret.kind = "pages" =>
        LET ids == Flatten([k \in DOMAIN ret.val |-> ListIds(ret.val[k])])
            M == Matching(table, WhereOf(call.filters))
        IN  /\ Range(ids) = M
            /\ Len(ids) = Cardinality(M)

(* C30: testConnection releases every connection it acquires before it     *)
(* returns, when SELECT 1 succeeds and when it fails: the connections      *)
(* out of the pool are those of the testConnection calls still running,    *)
(* so repeated calls never reduce the connections available.               *)
C30_ConnectionsReleased ==
    pool = Cardinality({ p \in Procs : ProcAt(p, "testConnection", "connected") })

====
